---- MODULE Spec2Model ----
(***************************************************************************)
(* Model of AdaptiveTradingFunction.py: the Exchange pool (q, x, y, k,     *)
(* reserveHistory) with updateQ, tradeXforY and tradeYforX, and the pure   *)
(* functions calculate_k and calculate_y_vec.                              *)
(*                                                                         *)
(* Every number of the program is a decimal.Decimal.  A Decimal is modelled*)
(* by its value: a record [t, s, c, e] with t = "fin" (the finite number   *)
(* s * c * 10^e, c without trailing zeros, zero keeping its sign as        *)
(* Decimal does) or t = "inf" (signed Infinity).  t = "err" stands for an  *)
(* expression whose evaluation raised (decimal.InvalidOperation or         *)
(* decimal.DivisionByZero, both trapped by the default context), and       *)
(* t = "nan" for numpy's nan marker.  Arithmetic rounds half-even to Prec  *)
(* significant digits as the decimal context does (the context's default   *)
(* is 28 digits; the model keeps the same rules at a smaller precision).   *)
(***************************************************************************)
EXTENDS Integers, Sequences, FiniteSets, TLC

\* significant digits of the decimal context in the model
Prec == 3
\* longest reserveHistory at which a trade is still started
MaxHist == 3
\* longest xvec given to calculate_y_vec
MaxLen == 2

\* ------------------------------------------------------------------------
\* decimal.Decimal values
\* ------------------------------------------------------------------------
RECURSIVE NumDigits(_)
NumDigits(n) == IF n < 10 THEN 1 ELSE 1 + NumDigits(n \div 10)

RECURSIVE Strip(_, _)
Strip(c, e) == IF c = 0 THEN <<0, 0>>
               ELSE IF c % 10 = 0 THEN Strip(c \div 10, e + 1)
               ELSE <<c, e>>

Fin(s, c, e) == LET n == Strip(c, e)
                IN [t |-> "fin", s |-> s, c |-> n[1], e |-> n[2]]

Inf(s) == [t |-> "inf", s |-> s, c |-> 0, e |-> 0]
Err == [t |-> "err", s |-> 1, c |-> 0, e |-> 0]
NaN == [t |-> "nan", s |-> 1, c |-> 0, e |-> 0]

\* Decimal(n) for a Python int n
Decimal(n) == IF n < 0 THEN Fin(-1, -n, 0) ELSE Fin(1, n, 0)
\* Decimal(0.5): the float 0.5 converts exactly
Half == Fin(1, 5, -1)

IsZero(a) == a.t = "fin" /\ a.c = 0
Abs(n) == IF n < 0 THEN -n ELSE n
Adj(a) == a.e + NumDigits(a.c) - 1

\* the context's rounding: ROUND_HALF_EVEN to Prec significant digits
Round(s, n, e) ==
    LET d == NumDigits(n)
    IN IF d <= Prec THEN Fin(s, n, e)
       ELSE LET sh == d - Prec
                p == 10 ^ sh
                qd == n \div p
                r == n % p
                half == 5 * 10 ^ (sh - 1)
                up == r > half \/ (r = half /\ qd % 2 = 1)
            IN Fin(s, IF up THEN qd + 1 ELSE qd, e + sh)

Neg(a) == IF a.t \in {"fin", "inf"} THEN [a EXCEPT !.s = -a.s] ELSE a

\* Decimal.__add__
Add(a, b) ==
    IF a.t \notin {"fin", "inf"} \/ b.t \notin {"fin", "inf"} THEN Err
    ELSE IF a.t = "inf" /\ b.t = "inf" THEN (IF a.s = b.s THEN a ELSE Err)
    ELSE IF a.t = "inf" THEN a
    ELSE IF b.t = "inf" THEN b
    ELSE IF a.c = 0 /\ b.c = 0
         THEN Fin(IF a.s = -1 /\ b.s = -1 THEN -1 ELSE 1, 0, 0)
    ELSE IF a.c = 0 THEN Round(b.s, b.c, b.e)
    ELSE IF b.c = 0 THEN Round(a.s, a.c, a.e)
    ELSE IF Adj(a) - Adj(b) >= Prec + 2 THEN Round(a.s, a.c, a.e)
    ELSE IF Adj(b) - Adj(a) >= Prec + 2 THEN Round(b.s, b.c, b.e)
    ELSE LET m == IF a.e < b.e THEN a.e ELSE b.e
             sum == a.s * a.c * 10 ^ (a.e - m) + b.s * b.c * 10 ^ (b.e - m)
         IN IF sum = 0 THEN Fin(1, 0, 0)
            ELSE Round(IF sum < 0 THEN -1 ELSE 1, Abs(sum), m)

\* Decimal.__sub__: self + other.copy_negate()
Sub(a, b) == Add(a, Neg(b))

\* Decimal.__mul__
Mul(a, b) ==
    IF a.t \notin {"fin", "inf"} \/ b.t \notin {"fin", "inf"} THEN Err
    ELSE IF a.t = "inf" \/ b.t = "inf"
         THEN (IF IsZero(a) \/ IsZero(b) THEN Err ELSE Inf(a.s * b.s))
    ELSE Round(a.s * b.s, a.c * b.c, a.e + b.e)

\* Decimal.__truediv__
Div(a, b) ==
    IF a.t \notin {"fin", "inf"} \/ b.t \notin {"fin", "inf"} THEN Err
    ELSE IF a.t = "inf" THEN (IF b.t = "inf" THEN Err ELSE Inf(a.s * b.s))
    ELSE IF b.t = "inf" THEN Fin(a.s * b.s, 0, 0)
    ELSE IF b.c = 0 THEN Err
    ELSE IF a.c = 0 THEN Fin(a.s * b.s, 0, 0)
    ELSE LET want == NumDigits(b.c) + Prec + 1 - NumDigits(a.c)
             sh == IF want > 0 THEN want ELSE 0
             num == a.c * 10 ^ sh
             quo == num \div b.c
             rem == num % b.c
             adj == IF rem # 0 /\ quo % 5 = 0 THEN quo + 1 ELSE quo
         IN Round(a.s * b.s, adj, a.e - b.e - sh)

\* a < b for finite or infinite decimals
Less(a, b) == LET d == Sub(a, b)
              IN IF d.t = "err" THEN FALSE
                 ELSE d.s = -1 /\ ~IsZero(d)

\* Decimal.__gt__
Greater(a, b) == Less(b, a)

RECURSIVE ISqrt(_, _, _)
ISqrt(n, lo, hi) ==
    IF lo >= hi THEN lo
    ELSE LET mid == (lo + hi + 1) \div 2
         IN IF mid * mid <= n THEN ISqrt(n, mid, hi) ELSE ISqrt(n, lo, mid - 1)

\* a ** Decimal('0.5') for a finite a > 0, correctly rounded
Sqrt(a) ==
    LET d == NumDigits(a.c)
        k0 == 2 * Prec - 1 - d
        up == IF (a.e - k0) % 2 = 0 THEN k0 ELSE k0 + 1
        n == a.c * 10 ^ up
        r == ISqrt(n, 0, 10 ^ Prec)
        rr == IF n - r * r > r THEN r + 1 ELSE r
    IN Fin(1, rr, (a.e - up) \div 2)

IsInteger(b) == b.t = "fin" /\ b.e >= 0
IsOdd(b) == b.t = "fin" /\ b.e = 0 /\ b.c % 2 = 1

\* Decimal.__pow__ for the exponents q and 1/q that QVals gives rise to
Pow(a, b) ==
    IF a.t \notin {"fin", "inf"} \/ b.t \notin {"fin", "inf"} THEN Err
    ELSE IF IsZero(b) THEN (IF IsZero(a) THEN Err ELSE Fin(1, 1, 0))
    ELSE IF a.s = -1 /\ ~IsInteger(b) /\ ~IsZero(a) THEN Err
    ELSE LET rs == IF a.s = -1 /\ IsOdd(b) THEN -1 ELSE 1
         IN IF IsZero(a) THEN (IF b.s = -1 THEN Inf(rs) ELSE Fin(rs, 0, 0))
            ELSE IF a.t = "inf"
                 THEN (IF b.s = -1 THEN Fin(rs, 0, 0) ELSE Inf(rs))
            ELSE IF b = Decimal(1) THEN Round(rs, a.c, a.e)
            ELSE IF b = Decimal(2) THEN Round(rs, a.c * a.c, 2 * a.e)
            ELSE IF b = Decimal(-1)
                 THEN Div(Fin(rs, 1, 0), [a EXCEPT !.s = 1])
            ELSE IF b = Half THEN Sqrt(a)
            ELSE Err

\* np.isclose(float(q), 0.0): |q| <= atol = 1e-8
isclose0(q) == q.t = "fin" /\ (q.c = 0 \/ Adj(q) < -8 \/ (Adj(q) = -8 /\ q.c = 1))


\* ------------------------------------------------------------------------
\* Pure functions
\* ------------------------------------------------------------------------
\* calculate_k that forgets the 1/q root of the sum
calculate_k_noRoot(q, x, y) ==
    IF isclose0(q) THEN Mul(x, y)
    ELSE Add(Pow(x, q), Pow(y, q))

\* calculate_k(q, x, y)
calculate_k(q, x, y) ==
    IF isclose0(q) THEN Mul(x, y)
    ELSE Pow(Add(Pow(x, q), Pow(y, q)), Div(Decimal(1), q))

\* one element of calculate_y_vec(xvec, q, k): the body of the for loop,
\* the bare except turning every raised error into nan
calculate_y(x, q, k) ==
    LET xq == Pow(x, q)
        kq == Pow(k, q)
        v == IF isclose0(q) THEN Div(k, x)
             ELSE IF xq.t = "err" \/ kq.t = "err" THEN Err
             ELSE IF Greater(xq, kq) THEN NaN
             ELSE Pow(Sub(kq, xq), Div(Decimal(1), q))
    IN IF v.t = "err" THEN NaN ELSE v

\* the for loop of calculate_y_vec: one value appended to yvec per element
RECURSIVE calculate_y_loop(_, _, _, _)
calculate_y_loop(xvec, q, k, yvec) ==
    IF xvec = <<>> THEN yvec
    ELSE calculate_y_loop(Tail(xvec), q, k,
                          Append(yvec, calculate_y(Head(xvec), q, k)))

IsMarker(v) == v.t = "nan"

NotMarker(v) == ~IsMarker(v)

\* calculate_y_vec that leaves the failing elements out of the result
calculate_y_vec_skipping(xvec, q, k) ==
    SelectSeq(calculate_y_loop(xvec, q, k, <<>>), NotMarker)

\* calculate_y_vec(xvec, q, k)
calculate_y_vec(xvec, q, k) ==
    calculate_y_loop(xvec, q, k, <<>>)

\* ------------------------------------------------------------------------
\* class Exchange
\* ------------------------------------------------------------------------
\* the value k is assigned in __init__ and updateQ
invariantK(q, x, y) ==
    IF isclose0(q) THEN Mul(x, y)
    ELSE Pow(Add(Pow(x, q), Pow(y, q)), Div(Decimal(1), q))

\* Exchange.__init__(x, y, q)
Exchange(x, y, q) ==
    [q |-> q, x |-> x, y |-> y, k |-> invariantK(q, x, y),
     reserveHistory |-> << <<x, y>> >>]

\* The result of a method call: the object afterwards, whether the call
\* raised, and the value it returned (Err when it raised, None as Err too).
Outcome(self, raised, ret) == [self |-> self, raised |-> raised, ret |-> ret]

\* updateQ that also records the reserves in the history
updateQ_appending(self, newq) ==
    LET s1 == [self EXCEPT !.q = newq,
                           !.reserveHistory = Append(@, <<self.x, self.y>>)]
        newk == invariantK(s1.q, s1.x, s1.y)
    IN IF newk.t = "err" THEN Outcome(s1, TRUE, Err)
       ELSE Outcome([s1 EXCEPT !.k = newk], FALSE, Err)

\* updateQ that recomputes k from the reserves the pool was built with
updateQ_initialReserves(self, newq) ==
    LET s1 == [self EXCEPT !.q = newq]
        first == self.reserveHistory[1]
        newk == invariantK(s1.q, first[1], first[2])
    IN IF newk.t = "err" THEN Outcome(s1, TRUE, Err)
       ELSE Outcome([s1 EXCEPT !.k = newk], FALSE, Err)

\* Exchange.updateQ(newq): q is assigned before k is computed
updateQ(self, newq) ==
    LET s1 == [self EXCEPT !.q = newq]
        newk == invariantK(s1.q, s1.x, s1.y)
    IN IF newk.t = "err" THEN Outcome(s1, TRUE, Err)
       ELSE Outcome([s1 EXCEPT !.k = newk], FALSE, Err)

\* tradeXforY that forgets the history append
tradeXforY_noAppend(self, dx) ==
    LET newx == Add(self.x, dx)
        newy == IF isclose0(self.q) THEN Div(self.k, newx)
                ELSE Pow(Sub(Pow(self.k, self.q), Pow(newx, self.q)),
                         Div(Decimal(1), self.q))
        dy == Sub(self.y, newy)
    IN IF dy.t = "err" THEN Outcome(self, TRUE, Err)
       ELSE Outcome([self EXCEPT !.x = newx, !.y = newy], FALSE, dy)

\* tradeXforY that assigns self.x before newy is computed
tradeXforY_earlyAssign(self, dx) ==
    LET newx == Add(self.x, dx)
        newy == IF isclose0(self.q) THEN Div(self.k, newx)
                ELSE Pow(Sub(Pow(self.k, self.q), Pow(newx, self.q)),
                         Div(Decimal(1), self.q))
        dy == Sub(self.y, newy)
    IN IF dy.t = "err" THEN Outcome([self EXCEPT !.x = newx], TRUE, Err)
       ELSE Outcome([self EXCEPT !.x = newx, !.y = newy,
                        !.reserveHistory = Append(@, <<newx, newy>>)],
                    FALSE, dy)

\* tradeXforY that records the new pair at the front of the history
tradeXforY_prepend(self, dx) ==
    LET newx == Add(self.x, dx)
        newy == IF isclose0(self.q) THEN Div(self.k, newx)
                ELSE Pow(Sub(Pow(self.k, self.q), Pow(newx, self.q)),
                         Div(Decimal(1), self.q))
        dy == Sub(self.y, newy)
    IN IF dy.t = "err" THEN Outcome(self, TRUE, Err)
       ELSE Outcome([self EXCEPT !.x = newx, !.y = newy,
                        !.reserveHistory = << <<newx, newy>> >> \o @],
                    FALSE, dy)

\* tradeXforY pricing the whole trade at the pool's current ratio y/x
\* instead of solving the curve for the new x
tradeXforY_marginalPrice(self, dx) ==
    LET newx == Add(self.x, dx)
        newy == Sub(self.y, Mul(dx, Div(self.y, self.x)))
        dy == Sub(self.y, newy)
    IN IF dy.t = "err" THEN Outcome(self, TRUE, Err)
       ELSE Outcome([self EXCEPT !.x = newx, !.y = newy,
                        !.reserveHistory = Append(@, <<newx, newy>>)],
                    FALSE, dy)

\* Exchange.tradeXforY(dx)
tradeXforY(self, dx) ==
    LET newx == Add(self.x, dx)
        newy == IF isclose0(self.q) THEN Div(self.k, newx)
                ELSE Pow(Sub(Pow(self.k, self.q), Pow(newx, self.q)),
                         Div(Decimal(1), self.q))
        dy == Sub(self.y, newy)
    IN IF dy.t = "err" THEN Outcome(self, TRUE, Err)
       ELSE Outcome([self EXCEPT !.x = newx, !.y = newy,
                        !.reserveHistory = Append(@, <<newx, newy>>)],
                    FALSE, dy)

\* tradeYforX that recomputes k from the new reserves
tradeYforX_recomputeK(self, dy) ==
    LET newy == Add(self.y, dy)
        newx == IF isclose0(self.q) THEN Div(self.k, newy)
                ELSE Pow(Sub(Pow(self.k, self.q), Pow(newy, self.q)),
                         Div(Decimal(1), self.q))
        dx == Sub(self.x, newx)
        newk == invariantK(self.q, newx, newy)
    IN IF dx.t = "err" \/ newk.t = "err" THEN Outcome(self, TRUE, Err)
       ELSE Outcome([self EXCEPT !.x = newx, !.y = newy, !.k = newk,
                        !.reserveHistory = Append(@, <<newx, newy>>)],
                    FALSE, dx)

\* tradeYforX that returns newx - x instead of x - newx
tradeYforX_signSlip(self, dy) ==
    LET newy == Add(self.y, dy)
        newx == IF isclose0(self.q) THEN Div(self.k, newy)
                ELSE Pow(Sub(Pow(self.k, self.q), Pow(newy, self.q)),
                         Div(Decimal(1), self.q))
        dx == Sub(newx, self.x)
    IN IF dx.t = "err" THEN Outcome(self, TRUE, Err)
       ELSE Outcome([self EXCEPT !.x = newx, !.y = newy,
                        !.reserveHistory = Append(@, <<newx, newy>>)],
                    FALSE, dx)

\* Exchange.tradeYforX(dy)
tradeYforX(self, dy) ==
    LET newy == Add(self.y, dy)
        newx == IF isclose0(self.q) THEN Div(self.k, newy)
                ELSE Pow(Sub(Pow(self.k, self.q), Pow(newy, self.q)),
                         Div(Decimal(1), self.q))
        dx == Sub(self.x, newx)
    IN IF dx.t = "err" THEN Outcome(self, TRUE, Err)
       ELSE Outcome([self EXCEPT !.x = newx, !.y = newy,
                        !.reserveHistory = Append(@, <<newx, newy>>)],
                    FALSE, dx)

\* ------------------------------------------------------------------------
\* The state machine: a pool ex driven by its three methods, and next to it
\* a pool mirror built from the swapped reserves and driven by the mirrored
\* calls.  last records the latest call on ex (method, argument, whether it
\* raised, returned value, the pool before it and the pool before the call
\* preceding it); mlast records the outcome of the latest call on mirror;
\* done counts the trades on ex that returned.
\* ------------------------------------------------------------------------
VARIABLES ex, mirror, last, mlast, done
vars == <<ex, mirror, last, mlast, done>>

\* inputs
QVals == {Decimal(0), Half, Decimal(1)}
Reserves0 == {<<Decimal(100), Decimal(100)>>}
\* amounts offered to tradeXforY on ex (and so to tradeYforX on mirror)
Deltas == {Decimal(-100), Decimal(100), Decimal(400)}
\* amounts offered to tradeYforX on ex, besides the amounts TradeBack offers
DeltasY == {Decimal(100)}

Call(op, arg, out, pre, pre2) ==
    [op |-> op, arg |-> arg, raised |-> out.raised, ret |-> out.ret,
     pre |-> pre, pre2 |-> pre2]

\* the reserves the two pools of SpecPair start from
ReservesPair == {<<Decimal(100), Decimal(200)>>}

Start(R) ==
    \E r0 \in R, q0 \in QVals :
        /\ ex = Exchange(r0[1], r0[2], q0)
        /\ mirror = Exchange(r0[2], r0[1], q0)
        /\ last = Call("init", q0, Outcome(ex, FALSE, Err), ex, ex)
        /\ mlast = [raised |-> FALSE, ret |-> Err]
        /\ done = 0

Init == Start(Reserves0)

InitPair == Start(ReservesPair)

\* ex.updateQ(newq); pre2 keeps the pool before the updateQ preceding it
CallUpdateQ(newq) ==
    LET out == updateQ(ex, newq)
    IN /\ ex' = out.self
       /\ last' = Call("updateQ", newq, out, ex,
                       IF last.op = "updateQ" THEN last.pre ELSE ex)
       /\ done' = done

\* ex.tradeXforY(dx); pre2 keeps the pool before the successful tradeXforY
\* preceding it
CallTradeXforY(dx) ==
    LET out == tradeXforY(ex, dx)
    IN /\ Len(ex.reserveHistory) < MaxHist
       /\ ex' = out.self
       /\ last' = Call("tradeXforY", dx, out, ex,
                       IF last.op = "tradeXforY" /\ ~last.raised
                       THEN last.pre ELSE ex)
       /\ done' = IF out.raised THEN done ELSE done + 1

\* ex.tradeYforX(dy); op tells a free call from the one TradeBack makes,
\* which may still complete a round trip begun at the longest history
CallTradeYforX(dy, op) ==
    LET out == tradeYforX(ex, dy)
    IN /\ Len(ex.reserveHistory) < MaxHist + (IF op = "tradeBack" THEN 1 ELSE 0)
       /\ ex' = out.self
       /\ last' = Call(op, dy, out, ex,
                       IF op = "tradeBack" THEN last.pre ELSE ex)
       /\ done' = IF out.raised THEN done ELSE done + 1

\* the same call made on mirror
OnMirror(mout) ==
    /\ mirror' = mout.self
    /\ mlast' = [raised |-> mout.raised, ret |-> mout.ret]

UpdateQ == \E newq \in QVals : CallUpdateQ(newq) /\ UNCHANGED <<mirror, mlast>>

TradeXforY ==
    \E dx \in Deltas : CallTradeXforY(dx) /\ UNCHANGED <<mirror, mlast>>

TradeYforX ==
    \E dy \in DeltasY :
        CallTradeYforX(dy, "tradeYforX") /\ UNCHANGED <<mirror, mlast>>

\* tradeYforX called with the amount the preceding tradeXforY returned
TradeBack ==
    /\ last.op = "tradeXforY"
    /\ ~last.raised
    /\ CallTradeYforX(last.ret, "tradeBack")
    /\ UNCHANGED <<mirror, mlast>>

Next == UpdateQ \/ TradeXforY \/ TradeYforX \/ TradeBack

Spec == Init /\ [][Next]_vars

\* The two pools side by side: every call on ex is made on mirror with the
\* two trade methods exchanged.
PairUpdateQ ==
    \E newq \in QVals : CallUpdateQ(newq) /\ OnMirror(updateQ(mirror, newq))

PairTradeXforY ==
    \E dx \in Deltas : CallTradeXforY(dx) /\ OnMirror(tradeYforX(mirror, dx))

PairTradeYforX ==
    \E dy \in Deltas :
        CallTradeYforX(dy, "tradeYforX") /\ OnMirror(tradeXforY(mirror, dy))

NextPair == PairUpdateQ \/ PairTradeXforY \/ PairTradeYforX

SpecPair == InitPair /\ [][NextPair]_vars

\* a pool whose x reserve already fills the working precision, as every
\* solved reserve does, so that adding to it rounds
ReservesFrac == {<<Fin(1, (10 ^ Prec) \div 3, 2 - Prec), Decimal(200)>>}

InitFrac == Start(ReservesFrac)

SpecFrac == InitFrac /\ [][Next]_vars

\* ------------------------------------------------------------------------
\* The module's functions called on their own: one call per behaviour, its
\* arguments fixed by the initial state
\* ------------------------------------------------------------------------
PureQ == {Decimal(-1), Decimal(0), Half, Decimal(1), Decimal(2)}

PureVals == {Decimal(-100), Decimal(0), Decimal(100), Decimal(300)}

PureK == {Decimal(50), Decimal(200), Decimal(400), Decimal(10000)}

PureVecs == UNION {[1..n -> PureVals] : n \in 0..MaxLen}

\* no Exchange object exists
NoPool == [q |-> Err, x |-> Err, y |-> Err, k |-> Err, reserveHistory |-> <<>>]

InitPure ==
    /\ ex = NoPool
    /\ mirror = NoPool
    /\ mlast = [raised |-> FALSE, ret |-> Err]
    /\ done = 0
    /\ \E q \in PureQ, x \in PureVals, y \in PureVals, k \in PureK,
          xvec \in PureVecs :
           last = Call("args", [q |-> q, x |-> x, y |-> y, k |-> k,
                                xvec |-> xvec],
                       Outcome(NoPool, FALSE, Err), NoPool, NoPool)

\* the call returns a value, or raises when the value is an error
Returned(op, v) ==
    Call(op, last.arg, Outcome(NoPool, v.t = "err", v), NoPool, NoPool)

\* calculate_k(q, x, y)
CallCalculateK ==
    /\ last.op = "args"
    /\ last' = Returned("calculate_k",
                        calculate_k(last.arg.q, last.arg.x, last.arg.y))
    /\ UNCHANGED <<ex, mirror, mlast, done>>

\* ex = Exchange(x, y, q): no object is bound when __init__ raises
CallExchange ==
    LET new == Exchange(last.arg.x, last.arg.y, last.arg.q)
    IN /\ last.op = "args"
       /\ last' = Returned("Exchange", new.k)
       /\ ex' = IF new.k.t = "err" THEN NoPool ELSE new
       /\ UNCHANGED <<mirror, mlast, done>>

\* calculate_y_vec(xvec, q, k): it returns the list and never raises
CallCalculateYVec ==
    /\ last.op = "args"
    /\ last' = Call("calculate_y_vec", last.arg,
                    Outcome(NoPool, FALSE,
                            calculate_y_vec(last.arg.xvec, last.arg.q,
                                            last.arg.k)),
                    NoPool, NoPool)
    /\ UNCHANGED <<ex, mirror, mlast, done>>

NextPure == CallCalculateK \/ CallExchange \/ CallCalculateYVec

SpecPure == InitPure /\ [][NextPure]_vars

\* ------------------------------------------------------------------------
\* Properties
\* ------------------------------------------------------------------------
IsTrade == last.op \in {"tradeXforY", "tradeYforX", "tradeBack"}

\* the reserve the latest trade asked for on its known side
Requested == IF last.op = "tradeXforY" THEN Add(last.pre.x, last.arg)
             ELSE Add(last.pre.y, last.arg)

\* no partner reserve exists on the curve (q, k) for the reserve known
Infeasible(q, known, k) == ~isclose0(q) /\ Greater(Pow(known, q), Pow(k, q))

Magnitude(a) == [a EXCEPT !.s = 1]

\* a and b agree up to rounding: within 5 units of the last of Prec digits
Close(a, b) ==
    IF a.t = "fin" /\ b.t = "fin"
    THEN LET d == Magnitude(Sub(a, b))
             m == IF Less(Magnitude(a), Magnitude(b))
                  THEN Magnitude(b) ELSE Magnitude(a)
         IN ~Less(Mul(Decimal(5), m), Mul(d, Fin(1, 1, Prec - 1)))
    ELSE a.t = "inf" /\ b.t = "inf" /\ a.s = b.s

\* k is the invariant of (q, x, y)
Consistent(p) ==
    IF isclose0(p.q) THEN Close(Mul(p.x, p.y), p.k)
    ELSE Close(Add(Pow(p.x, p.q), Pow(p.y, p.q)), Pow(p.k, p.q))

Top(h) == h[Len(h)]

\* C1: a trade whose requested reserve is infeasible on the current curve
\* (q not ~0 and newReserve^q > k^q) signals failure and leaves q, x, y, k
\* and the history as they were.
C1_InfeasibleTradeRejected ==
    (IsTrade /\ Infeasible(last.pre.q, Requested, last.pre.k))
        => (last.raised /\ ex = last.pre)

\* C2: in every reachable state k is consistent with (q, x, y): x*y = k when
\* q ~ 0, x^q + y^q = k^q otherwise, up to rounding.
C2_KConsistent == Consistent(ex)

\* C3: the history holds one entry more than the number of trades that
\* succeeded since construction; failed trades and updateQ add none.
C3_HistoryLength == Len(ex.reserveHistory) = 1 + done

C3_Witness ==
    /\ done >= 1
    /\ \/ IsTrade /\ last.raised
       \/ last.op = "updateQ" /\ last.pre.q # ex.q

\* C4: a trade, successful or not, leaves k and q as they were.
C4_TradeKeepsKQ == IsTrade => (ex.k = last.pre.k /\ ex.q = last.pre.q)

C4_Witness ==
    /\ last.op \in {"tradeYforX", "tradeBack"}
    /\ ~last.raised
    /\ ex.x # last.pre.x
    /\ ~Consistent([ex EXCEPT !.k = Mul(ex.k, Decimal(2))])

\* C5: updateQ leaves x, y and the whole history unchanged.
C5_UpdateQFrame ==
    last.op = "updateQ"
        => /\ ex.x = last.pre.x
           /\ ex.y = last.pre.y
           /\ ex.reserveHistory = last.pre.reserveHistory

C5_Witness ==
    /\ last.op = "updateQ"
    /\ ex.q # last.pre.q
    /\ ex.k # last.pre.k
    /\ Len(ex.reserveHistory) > 1

\* C6: after updateQ(newQ), q = newQ, and when the call returned k is
\* calculate_k(newQ, x, y) for the reserves the pool holds now.
C6_UpdateQRecomputes ==
    last.op = "updateQ"
        => /\ ex.q = last.arg
           /\ ~last.raised => ex.k = calculate_k(last.arg, ex.x, ex.y)

C6_Witness ==
    /\ last.op = "updateQ"
    /\ ~last.raised
    /\ ex.q # last.pre.q
    /\ <<ex.x, ex.y>> # ex.reserveHistory[1]
    /\ ex.k # calculate_k(ex.q, ex.reserveHistory[1][1], ex.reserveHistory[1][2])

\* C7: a tradeXforY(dx) that succeeds ends with x' = x + dx and y' = the
\* solver's value for (x + dx, q, k), returns y - y' and appends (x', y');
\* from q = 0, x = y = 100 tradeXforY(100) gives x' = 200, y' = 50 and
\* returns 50.
C7_TradeXforYResult ==
    (last.op = "tradeXforY" /\ ~last.raised)
        => /\ ex.x = Add(last.pre.x, last.arg)
           /\ ex.y = calculate_y(ex.x, last.pre.q, last.pre.k)
           /\ last.ret = Sub(last.pre.y, ex.y)
           /\ ex.reserveHistory
                  = Append(last.pre.reserveHistory, <<ex.x, ex.y>>)
           /\ (last.pre = Exchange(Decimal(100), Decimal(100), Decimal(0))
                  /\ last.arg = Decimal(100))
                 => /\ ex.x = Decimal(200)
                    /\ ex.y = Decimal(50)
                    /\ last.ret = Decimal(50)

\* C8: tradeXforY(dx) followed by tradeYforX of the returned amount brings
\* (x, y) back to the pre-trade values up to rounding, k being the same at
\* every step; the history has two more entries, the last one the pre-trade
\* pair.
C8_TradeReversible ==
    last.op = "tradeBack"
        => /\ ~last.raised
           /\ Close(ex.x, last.pre2.x)
           /\ Close(ex.y, last.pre2.y)
           /\ last.pre.k = last.pre2.k
           /\ ex.k = last.pre2.k
           /\ Len(ex.reserveHistory) = Len(last.pre2.reserveHistory) + 2
           /\ Close(Top(ex.reserveHistory)[1], last.pre2.x)
           /\ Close(Top(ex.reserveHistory)[2], last.pre2.y)

Swap(h) == [i \in 1..Len(h) |-> <<h[i][2], h[i][1]>>]

\* C9: with tradeXforY on one pool answered by tradeYforX on the pool built
\* from the swapped reserves, the pools keep equal q and k, swapped
\* reserves and history pairs, equal returned amounts and the same outcome.
C9_Mirror ==
    /\ ex.q = mirror.q
    /\ ex.k = mirror.k
    /\ ex.x = mirror.y
    /\ ex.y = mirror.x
    /\ ex.reserveHistory = Swap(mirror.reserveHistory)
    /\ last.raised = mlast.raised
    /\ last.ret = mlast.ret

C9_Witness ==
    /\ last.op = "tradeXforY"
    /\ ~last.raised
    /\ ~IsZero(last.ret)
    /\ Len(mirror.reserveHistory) = 3
    /\ mirror.x # mirror.y

\* C10: after every call the last history entry is the current (x, y).
C10_HistoryTop == Top(ex.reserveHistory) = <<ex.x, ex.y>>

C10_Witness ==
    /\ last.op = "tradeXforY"
    /\ last.raised
    /\ last.pre.x # Add(last.pre.x, last.arg)
    /\ Len(ex.reserveHistory) > 1

\* a is not below zero (a zero of either sign counts as nonnegative)
NonNegative(a) == a.t \in {"fin", "inf"} /\ (a.s = 1 \/ IsZero(a))

\* C11: from a pool built with positive reserves, after any sequence of
\* calls x and y are nonnegative, and so is every pair of the history.
C11_ReservesNonNegative ==
    /\ NonNegative(ex.x)
    /\ NonNegative(ex.y)
    /\ \A i \in 1..Len(ex.reserveHistory) :
           NonNegative(ex.reserveHistory[i][1])
               /\ NonNegative(ex.reserveHistory[i][2])

IsPrefix(h1, h2) ==
    Len(h1) <= Len(h2) /\ \A i \in 1..Len(h1) : h1[i] = h2[i]

\* C12: the history is append-only: its first entry is the construction
\* pair, the history before a call is a prefix of the history after it, and
\* a successful trade extends it by exactly the post-trade pair.
C12_HistoryAppendOnly ==
    /\ ex.reserveHistory[1] \in Reserves0
    /\ IsPrefix(last.pre.reserveHistory, ex.reserveHistory)
    /\ (IsTrade /\ ~last.raised)
           => ex.reserveHistory
                  = last.pre.reserveHistory \o << <<ex.x, ex.y>> >>

C12_Witness ==
    /\ last.op = "tradeXforY"
    /\ ~last.raised
    /\ Len(ex.reserveHistory) = 3
    /\ ex.reserveHistory[1] # ex.reserveHistory[2]
    /\ ex.reserveHistory[2] # ex.reserveHistory[3]

\* C17: an updateQ whose recomputation of k fails reports the failure and
\* leaves both q and k at their previous values.
C17_UpdateQAtomic ==
    (last.op = "updateQ" /\ last.raised)
        => (ex.q = last.pre.q /\ ex.k = last.pre.k)

\* a and b differ by at most 5 units in the last of Prec digits of m
CloseAt(a, b, m) ==
    /\ a.t = "fin"
    /\ b.t = "fin"
    /\ m.t = "fin"
    /\ ~Less(Mul(Decimal(5), Magnitude(m)),
             Mul(Magnitude(Sub(a, b)), Fin(1, 1, Prec - 1)))

\* the larger of the magnitudes of a and b
MaxMag(a, b) ==
    IF Less(Magnitude(a), Magnitude(b)) THEN Magnitude(b) ELSE Magnitude(a)

\* the pool before the first of two successive successful tradeXforY calls,
\* the first of which took a
TwoTrades(a) ==
    /\ last.op = "tradeXforY"
    /\ ~last.raised
    /\ last.pre2 # last.pre
    /\ ~tradeXforY(last.pre2, a).raised
    /\ tradeXforY(last.pre2, a).self = last.pre

\* C18 as stated: with no updateQ in between, the post-trade y of
\* tradeXforY does not depend on the previous y, and two successful trades
\* tradeXforY(a) then tradeXforY(b) end in exactly the same (x, y) as the
\* single trade tradeXforY(a + b) from the same start, whose returned amount
\* is exactly the sum of the two.
C18_PathIndependent ==
    (last.op = "tradeXforY" /\ ~last.raised)
        => /\ tradeXforY([last.pre EXCEPT !.y = Decimal(1)], last.arg).self.y
                  = ex.y
           /\ \A a \in Deltas :
                  LET first == tradeXforY(last.pre2, a)
                      one == tradeXforY(last.pre2, Add(a, last.arg))
                  IN TwoTrades(a)
                         => /\ ~one.raised
                            /\ one.self.x = ex.x
                            /\ one.self.y = ex.y
                            /\ Add(first.ret, last.ret) = one.ret

\* C18 amended: the post-trade y of tradeXforY does not depend on the
\* previous y, and two successful trades tradeXforY(a) then tradeXforY(b)
\* end in the same (x, y) as the single trade tradeXforY(a + b) up to the
\* rounding of the reserves, the two returned amounts summing to the single
\* trade's up to that rounding.
C18_PathIndependentRounded ==
    (last.op = "tradeXforY" /\ ~last.raised)
        => /\ tradeXforY([last.pre EXCEPT !.y = Decimal(1)], last.arg).self.y
                  = ex.y
           /\ \A a \in Deltas :
                  LET first == tradeXforY(last.pre2, a)
                      one == tradeXforY(last.pre2, Add(a, last.arg))
                      mx == MaxMag(last.pre2.x, MaxMag(last.pre.x, ex.x))
                      my == MaxMag(last.pre2.y, MaxMag(last.pre.y, ex.y))
                  IN TwoTrades(a)
                         => /\ ~one.raised
                            /\ CloseAt(one.self.x, ex.x, mx)
                            /\ CloseAt(one.self.y, ex.y, my)
                            /\ CloseAt(Add(first.ret, last.ret), one.ret, my)

\* two successive trades whose roundings of x make the final x differ from
\* the single trade's
C18_Witness ==
    /\ ex.q = Half
    /\ NonNegative(ex.y)
    /\ \E a \in Deltas :
           /\ TwoTrades(a)
           /\ ~tradeXforY(last.pre2, Add(a, last.arg)).raised
           /\ tradeXforY(last.pre2, Add(a, last.arg)).self.x # ex.x

\* C19: updateQ is idempotent and reversible: an updateQ that sets q back to
\* the value it had before the preceding updateQ (or leaves it at its current
\* value) restores the k of that earlier state up to rounding and the rest
\* of the pool exactly, and repeating an updateQ with the same value changes
\* nothing.
C19_UpdateQReversible ==
    (last.op = "updateQ")
        => /\ updateQ(ex, last.arg).self = ex
           /\ (last.arg = last.pre2.q)
                  => /\ ~last.raised
                     /\ Close(ex.k, last.pre2.k)
                     /\ [ex EXCEPT !.k = last.pre2.k] = last.pre2

\* a is zero or below
NonPositive(a) == a.t = "fin" /\ (IsZero(a) \/ a.s = -1)

\* C13: calculate_k and the construction of a pool fail when x <= 0 or
\* y <= 0: neither a k nor an Exchange object comes out of a nonpositive
\* reserve.
C13_NonPositiveReserveFails ==
    (/\ last.op \in {"calculate_k", "Exchange"}
     /\ (NonPositive(last.arg.x) \/ NonPositive(last.arg.y)))
        => (last.raised /\ ex = NoPool)

\* the element x of xvec cannot be solved: the division or a power raises,
\* or x ** q is above k ** q
Failing(x, q, k) ==
    IF isclose0(q) THEN Div(k, x).t = "err"
    ELSE \/ Pow(x, q).t = "err"
         \/ Pow(k, q).t = "err"
         \/ Infeasible(q, x, k)
         \/ Pow(Sub(Pow(k, q), Pow(x, q)), Div(Decimal(1), q)).t = "err"

\* C14: calculate_y_vec returns without raising a sequence as long as xvec
\* whose element i is the solver's value for (xvec[i], q, k) alone, the
\* marker where that element is infeasible or its arithmetic fails (x = 0
\* with q ~ 0 included), whatever the other elements are.
C14_VecAligned ==
    (last.op = "calculate_y_vec")
        => /\ ~last.raised
           /\ Len(last.ret) = Len(last.arg.xvec)
           /\ \A i \in 1..Len(last.arg.xvec) :
                  LET x == last.arg.xvec[i]
                  IN /\ last.ret[i] = calculate_y(x, last.arg.q, last.arg.k)
                     /\ Failing(x, last.arg.q, last.arg.k)
                            <=> IsMarker(last.ret[i])
                     /\ (IsZero(x) /\ isclose0(last.arg.q))
                            => IsMarker(last.ret[i])

\* a failing first element followed by a solvable one
C14_Witness ==
    /\ last.op = "calculate_y_vec"
    /\ isclose0(last.arg.q)
    /\ last.arg.xvec = <<Decimal(0), Decimal(100)>>
    /\ IsMarker(last.ret[1])
    /\ last.ret[2] = Div(last.arg.k, Decimal(100))

\* C15: each element of calculate_y_vec is k / known when q ~ 0; otherwise
\* it is the marker exactly when known ** q > k ** q (or the arithmetic
\* fails) and (k ** q - known ** q) ** (1 / q) in every other case; every
\* result that is not the marker is nonnegative and lies on the curve of
\* (q, k).
C15_SolverOnCurve ==
    (last.op = "calculate_y_vec")
        => \A i \in 1..Len(last.ret) :
               LET known == last.arg.xvec[i]
                   q == last.arg.q
                   k == last.arg.k
                   v == last.ret[i]
                   raises == IF isclose0(q) THEN Div(k, known).t = "err"
                             ELSE Pow(known, q).t = "err"
               IN /\ raises => IsMarker(v)
                  /\ (~raises /\ isclose0(q)) => v = Div(k, known)
                  /\ (~raises /\ ~isclose0(q))
                         => /\ IsMarker(v) <=> Infeasible(q, known, k)
                            /\ ~IsMarker(v)
                                   => v = Pow(Sub(Pow(k, q), Pow(known, q)),
                                              Div(Decimal(1), q))
                  /\ ~IsMarker(v)
                         => /\ NonNegative(v)
                            /\ Close(calculate_k(q, known, v), k)

\* C16: for every element newX of xvec that calculate_y_vec solves, the
\* invariant recomputed by calculate_k from (q, newX, solvedY) is the k the
\* solver was given, up to rounding.
C16_RoundTrip ==
    (last.op = "calculate_y_vec")
        => \A i \in 1..Len(last.ret) :
               ~IsMarker(last.ret[i])
                   => Close(calculate_k(last.arg.q, last.arg.xvec[i],
                                        last.ret[i]),
                            last.arg.k)

\* a solved element on a curve with q = 0.5, strictly inside the curve
C16_Witness ==
    /\ last.op = "calculate_y_vec"
    /\ last.arg.q = Half
    /\ last.arg.k = Decimal(400)
    /\ last.arg.xvec = <<Decimal(300), Decimal(100)>>
    /\ last.ret[2] = Decimal(100)
    /\ ~IsMarker(last.ret[1])
    /\ ~IsZero(last.ret[1])
====
